---------------------------- MODULE Spec2Model ----------------------------
(***************************************************************************)
(* Model of the S2E LinuxMonitor plugin                                    *)
(* (src/s2e/Plugins/OSMonitors/Linux/LinuxMonitor.cpp).                    *)
(*                                                                         *)
(* The monitor receives fixed-layout command records from a guest agent,   *)
(* dispatches on the command kind, keeps the kernel layout learned from    *)
(* the Init command, emits typed signals and, for SegFault and Trap,       *)
(* blocks state switching and optionally terminates the issuing path.      *)
(*                                                                         *)
(* 64-bit quantities (uint64_t, target_ulong of the 64-bit guest build)    *)
(* are kept exactly, as four 16-bit limbs in little-endian order, so that  *)
(* `return -1`, the widening of `int pid` and address arithmetic are       *)
(* computed as the machine computes them.                                  *)
(***************************************************************************)
EXTENDS Integers, Sequences, FiniteSets, TLC

(***************************************************************************)
(* Bounds of the model.                                                    *)
(***************************************************************************)
\* number of execution paths (S2EExecutionState objects) explored
NumPaths == 2
\* longest guest string (process or module path) the guest memory holds
MaxPathLen == 2

Paths == 1..NumPaths

(***************************************************************************)
(* 64-bit unsigned arithmetic on four 16-bit limbs, least significant      *)
(* first.                                                                  *)
(***************************************************************************)
LimbBase == 2^16

\* the uint64_t whose value is the small natural n (n < 2^31)
U64(n) == << n % LimbBase, n \div LimbBase, 0, 0 >>

\* (uint64_t) -1
AllOnes == << LimbBase - 1, LimbBase - 1, LimbBase - 1, LimbBase - 1 >>

\* a + b modulo 2^64
Add64(a, b) ==
    LET s1 == a[1] + b[1]
        s2 == a[2] + b[2] + (s1 \div LimbBase)
        s3 == a[3] + b[3] + (s2 \div LimbBase)
        s4 == a[4] + b[4] + (s3 \div LimbBase)
    IN  << s1 % LimbBase, s2 % LimbBase, s3 % LimbBase, s4 % LimbBase >>

\* a - b modulo 2^64
Sub64(a, b) ==
    LET d1 == a[1] - b[1]
        d2 == a[2] - b[2] - (IF d1 < 0 THEN 1 ELSE 0)
        d3 == a[3] - b[3] - (IF d2 < 0 THEN 1 ELSE 0)
        d4 == a[4] - b[4] - (IF d3 < 0 THEN 1 ELSE 0)
    IN  << d1 % LimbBase, d2 % LimbBase, d3 % LimbBase, d4 % LimbBase >>

\* the four bytes at the start of a little-endian 8-byte cell: its low 32 bits
Low32(w) == << w[1], w[2] >>

\* `return pid;` with `int pid` in a function returning uint64_t:
\* the int is sign-extended to 64 bits
IntToU64(i) ==
    IF i[2] >= LimbBase \div 2
        THEN << i[1], i[2], LimbBase - 1, LimbBase - 1 >>
        ELSE << i[1], i[2], 0, 0 >>

(***************************************************************************)
(* Guest memory as the accessors see it: a partial map from addresses to   *)
(* 8-byte little-endian cells.  An address outside the map is unmapped,    *)
(* and a read of it fails.  The cells sit at 8-aligned addresses, so no    *)
(* read of the model straddles two of them.                                *)
(***************************************************************************)
CellAddrs == { U64(0), U64(8192), U64(8200), U64(12288), U64(12296), U64(12304) }

\* two contents of the cells; the first extends the end-to-end fixture of the
\* specification (0x2000 -> 0x3000, 0x3008 = 42, 0x3010 = 7)
ContentA == [ a \in CellAddrs |->
    CASE a = U64(0)     -> U64(8192)
      [] a = U64(8192)  -> U64(12288)
      [] a = U64(8200)  -> U64(5)
      [] a = U64(12288) -> U64(12296)
      [] a = U64(12296) -> U64(42)
      [] a = U64(12304) -> U64(7) ]

\* the second holds a current-task pointer just below the pointer's own
\* address, the pid -1 (0x2008), and at 0x3008 a cell whose low half is a
\* negative int other than -1 and whose upper half is in use
ContentB == [ a \in CellAddrs |->
    CASE a = U64(0)     -> U64(0)
      [] a = U64(8192)  -> U64(8184)
      [] a = U64(8200)  -> << LimbBase - 1, LimbBase - 1, 0, 0 >>
      [] a = U64(12288) -> U64(12288)
      [] a = U64(12296) -> << 9, LimbBase - 1, 1, 0 >>
      [] a = U64(12304) -> << LimbBase - 2, LimbBase - 1, 3, 0 >> ]

Restrict(f, S) == [ a \in S |-> f[a] ]

Memories == { Restrict(c, S) : c \in { ContentA, ContentB }, S \in SUBSET CellAddrs }

\* state->mem()->read(address, &buf, size) succeeds
CanRead(mem, address) == address \in DOMAIN mem

(***************************************************************************)
(* Guest strings and llvm::sys::path::filename.                            *)
(***************************************************************************)
PathChars == { "/", "a" }

RECURSIVE StringsUpTo(_)
StringsUpTo(n) ==
    IF n = 0 THEN { << >> }
    ELSE LET shorter == StringsUpTo(n - 1)
         IN  shorter \cup { Append(s, c) : s \in { t \in shorter : Len(t) = n - 1 }, c \in PathChars }

GuestStrings == StringsUpTo(MaxPathLen)

is_separator(c) == c = "/"

\* positions are 0-based as in the C++ code; NoPos is StringRef::npos
NoPos == -1

root_dir_start(str) ==
    IF Len(str) > 3 /\ is_separator(str[1]) /\ str[1] = str[2] /\ ~is_separator(str[3])
        THEN LET seps == { i \in 2..(Len(str) - 1) : is_separator(str[i + 1]) }
             IN  IF seps = {} THEN NoPos ELSE CHOOSE i \in seps : \A j \in seps : i <= j
    ELSE IF Len(str) > 0 /\ is_separator(str[1]) THEN 0
    ELSE NoPos

filename_pos(str) ==
    IF Len(str) > 0 /\ is_separator(str[Len(str)]) THEN Len(str) - 1
    ELSE LET seps == { i \in 0..(Len(str) - 1) : is_separator(str[i + 1]) }
             pos == IF seps = {} THEN NoPos ELSE CHOOSE i \in seps : \A j \in seps : j <= i
         IN  IF pos = NoPos \/ (pos = 1 /\ is_separator(str[1])) THEN 0 ELSE pos + 1

RECURSIVE skip_separators(_, _, _)
skip_separators(path, end_pos, root_dir_pos) ==
    IF end_pos > 0 /\ (end_pos - 1) # root_dir_pos /\ is_separator(path[end_pos])
        THEN skip_separators(path, end_pos - 1, root_dir_pos)
        ELSE end_pos

\* llvm::sys::path::filename(path) = *rbegin(path): the last component.
\* A trailing separator yields "." unless, with the trailing separators
\* skipped, what is left ends at the root directory: then the component is
\* the root directory itself.
filename(path) ==
    LET root_dir_pos == root_dir_start(path)
        end_pos == skip_separators(path, Len(path), root_dir_pos)
    IN  IF /\ Len(path) > 0
           /\ is_separator(path[Len(path)])
           /\ (root_dir_pos = NoPos \/ end_pos - 1 > root_dir_pos)
            THEN << "." >>
            ELSE LET start_pos == filename_pos(SubSeq(path, 1, end_pos))
                 IN  SubSeq(path, start_pos + 1, end_pos)

(***************************************************************************)
(* The command record S2E_LINUXMON_COMMAND: a kind, the guest-supplied     *)
(* currentPid and the payload of that kind.  Guest pointers to strings are *)
(* kept as addresses; what a readString of them yields is an input of the  *)
(* handler that reads them.                                                *)
(***************************************************************************)
KnownKinds == { "LINUX_SEGFAULT", "LINUX_PROCESS_LOAD", "LINUX_MODULE_LOAD", "LINUX_TRAP",
                "LINUX_PROCESS_EXIT", "LINUX_INIT", "LINUX_KERNEL_PANIC",
                "LINUX_MEMORY_MAP", "LINUX_MEMORY_UNMAP", "LINUX_MEMORY_PROTECT" }

\* command values the switch of handleCommand has no case for
UnknownKinds == { "LINUX_UNKNOWN_10", "LINUX_UNKNOWN_255" }

Pids == { U64(100), U64(200) }

\* the payloads of the Init commands the guest sends
InitPayloads == {
    [ page_offset |-> U64(4096), current_task_address |-> U64(8192),
      task_struct_pid_offset |-> U64(8), task_struct_tgid_offset |-> U64(16),
      start_kernel |-> U64(4608) ],
    [ page_offset |-> U64(49152), current_task_address |-> U64(12288),
      task_struct_pid_offset |-> U64(16), task_struct_tgid_offset |-> U64(8),
      start_kernel |-> U64(49664) ] }

SegFaultCommands ==
    { [ Command |-> "LINUX_SEGFAULT", currentPid |-> pid,
        SegFault |-> [ pc |-> U64(16384), address |-> U64(24), fault |-> U64(1) ] ] : pid \in Pids }

ProcessLoadCommands ==
    { [ Command |-> "LINUX_PROCESS_LOAD", currentPid |-> pid,
        ProcessLoad |-> [ process_path |-> U64(20480) ] ] : pid \in Pids }

ModuleLoadCommands ==
    { [ Command |-> "LINUX_MODULE_LOAD", currentPid |-> pid,
        ModuleLoad |-> [ module_path |-> U64(20736), load_base |-> U64(28672), size |-> U64(512) ] ] :
      pid \in Pids }

TrapCommands ==
    { [ Command |-> "LINUX_TRAP", currentPid |-> pid,
        Trap |-> [ pc |-> U64(16400), trapnr |-> U64(3), signr |-> U64(5), error_code |-> U64(0) ] ] :
      pid \in Pids }

ProcessExitCommands ==
    { [ Command |-> "LINUX_PROCESS_EXIT", currentPid |-> pid,
        ProcessExit |-> [ code |-> U64(1) ] ] : pid \in Pids }

InitCommands ==
    { [ Command |-> "LINUX_INIT", currentPid |-> U64(0), Init |-> i ] : i \in InitPayloads }

KernelPanicCommands ==
    { [ Command |-> "LINUX_KERNEL_PANIC", currentPid |-> U64(0),
        Panic |-> [ message |-> U64(21248), message_size |-> U64(16) ] ] }

MemMapCommands ==
    { [ Command |-> "LINUX_MEMORY_MAP", currentPid |-> pid,
        MemMap |-> [ address |-> U64(32768), size |-> U64(4096), prot |-> U64(3),
                     flag |-> U64(2), pgoff |-> U64(0) ] ] : pid \in Pids }

\* the second range has end < start
MemUnmapCommands ==
    { [ Command |-> "LINUX_MEMORY_UNMAP", currentPid |-> pid, MemUnmap |-> r ] :
      pid \in Pids,
      r \in { [ start |-> U64(32768), end |-> U64(36864) ],
              [ start |-> U64(36864), end |-> U64(32768) ] } }

MemProtectCommands ==
    { [ Command |-> "LINUX_MEMORY_PROTECT", currentPid |-> pid,
        MemProtect |-> [ start |-> U64(32768), size |-> U64(4096), prot |-> U64(1) ] ] : pid \in Pids }

UnknownCommands ==
    { [ Command |-> k, currentPid |-> pid ] : k \in UnknownKinds, pid \in Pids }

Commands ==
    SegFaultCommands \cup ProcessLoadCommands \cup ModuleLoadCommands \cup TrapCommands
    \cup ProcessExitCommands \cup InitCommands \cup KernelPanicCommands \cup MemMapCommands
    \cup MemUnmapCommands \cup MemProtectCommands \cup UnknownCommands

(***************************************************************************)
(* Inputs the handlers take from their collaborators.                      *)
(***************************************************************************)
\* state->regs()->getPageDir(): the address-space id of the issuing path
PageDirs == { U64(20480 * 4096), U64(24576 * 4096) }

\* state->mem()->readString(ptr, str): it fails, leaving the string empty,
\* or yields one of the guest strings
ReadStringResults ==
    { [ ok |-> FALSE, str |-> << >> ] } \cup { [ ok |-> TRUE, str |-> s ] : s \in GuestStrings }

\* Vmi::getFromDisk(module, true): no executable file found (data.ef null),
\* or the parsed image of the module
BinDatas ==
    { [ ef |-> FALSE, imageBase |-> U64(0), imageSize |-> U64(0), entryPoint |-> U64(0) ],
      [ ef |-> TRUE, imageBase |-> U64(4194304), imageSize |-> U64(768), entryPoint |-> U64(4195328) ] }

\* a default-constructed ModuleDescriptor
EmptyModuleDescriptor ==
    [ Name |-> << >>, Path |-> << >>, AddressSpace |-> U64(0), Pid |-> U64(0),
      LoadBase |-> U64(0), NativeBase |-> U64(0), Size |-> U64(0), EntryPoint |-> U64(0) ]

\* Vmi::toModuleDescriptor(module, data.ef): size and entry metadata of the
\* on-disk image replace the module's
toModuleDescriptor(module, data) ==
    [ module EXCEPT !.NativeBase = data.imageBase,
                    !.Size = data.imageSize,
                    !.EntryPoint = data.entryPoint ]

(***************************************************************************)
(* State.                                                                  *)
(***************************************************************************)
VARIABLES
    m_kernelStartAddress,    \* KernelLayout: kernel base address
    m_currentTaskAddr,       \* KernelLayout: address of the current-task pointer
    m_taskStructPidOffset,   \* KernelLayout: offset of task_struct.pid
    m_taskStructTgidOffset,  \* KernelLayout: offset of task_struct.tgid
    m_terminateOnSegfault,   \* configuration, read once by initialize()
    m_terminateOnTrap,       \* configuration, read once by initialize()
    m_commandSize,           \* size of a command record, set by initialize()
    m_commandVersion,        \* version of the command protocol, set by initialize()
    monitor,                 \* "constructed", "running", or "exited" once exit(-1) was called
    initialized,             \* per path: the initialization flag
    switchForbidden,         \* per path: setStateSwitchForbidden(true) was called
    terminated,              \* per path: terminateStateEarly was called
    last,                    \* the most recent operation, its inputs and what it did
    lastInit                 \* the payloads of the last two Init commands, most recent first

layoutVars == << m_kernelStartAddress, m_currentTaskAddr, m_taskStructPidOffset,
                 m_taskStructTgidOffset >>
configVars == << m_terminateOnSegfault, m_terminateOnTrap, m_commandSize, m_commandVersion >>
pathVars == << initialized, switchForbidden, terminated >>
vars == << layoutVars, configVars, pathVars, last, lastInit, monitor >>

\* the four KernelLayout fields as one record, named as the Init payload names them
KernelLayout ==
    [ page_offset |-> m_kernelStartAddress,
      current_task_address |-> m_currentTaskAddr,
      task_struct_pid_offset |-> m_taskStructPidOffset,
      task_struct_tgid_offset |-> m_taskStructTgidOffset ]

(***************************************************************************)
(* What one operation did, in the order it did it.                         *)
(***************************************************************************)
Warning(text) == [ op |-> "warning", name |-> text, args |-> << >> ]
Emit(signal, args) == [ op |-> "emit", name |-> signal, args |-> args ]
SetStateSwitchForbidden == [ op |-> "setStateSwitchForbidden", name |-> "true", args |-> << >> ]
TerminateStateEarly(reason) == [ op |-> "terminateStateEarly", name |-> reason, args |-> << >> ]
Call(routine, args) == [ op |-> "call", name |-> routine, args |-> args ]

NoCommand == [ Command |-> "none", currentPid |-> U64(0) ]

CommandOp(p, cmd, env, effects) ==
    [ op |-> "handleCommand", path |-> p, cmd |-> cmd, env |-> env, effects |-> effects,
      mem |-> << >>, ret |-> << >> ]

AccessorOp(fn, p, mem, ret) ==
    [ op |-> fn, path |-> p, cmd |-> NoCommand, env |-> << >>, effects |-> << >>,
      mem |-> mem, ret |-> ret ]

\* the entries of an operation's effects of one kind
EffectsOf(effects, op) == SelectSeq(effects, LAMBDA e : e.op = op)

\* the notifications an operation emitted on one signal
Emitted(effects, signal) == SelectSeq(effects, LAMBDA e : e.op = "emit" /\ e.name = signal)

(***************************************************************************)
(* The state after construction, and initialize().  Neither assigns any of *)
(* the four KernelLayout fields, so they hold whatever the allocation      *)
(* held: zeroes or any other value; so do the two flags until initialize() *)
(* reads them from the configuration file.  initialize() ends the process  *)
(* with exit(-1) when the MemoryMap plugin is not loaded: nothing runs     *)
(* after that.                                                             *)
(***************************************************************************)
IndeterminateLayouts ==
    { [ page_offset |-> U64(0), current_task_address |-> U64(0),
        task_struct_pid_offset |-> U64(0), task_struct_tgid_offset |-> U64(0) ],
      [ page_offset |-> U64(57005), current_task_address |-> U64(12296),
        task_struct_pid_offset |-> U64(8), task_struct_tgid_offset |-> U64(0) ] }

NoOp == [ op |-> "none", path |-> 0, cmd |-> NoCommand, env |-> << >>, effects |-> << >>,
          mem |-> << >>, ret |-> << >> ]

\* a key of the configuration file: absent, or present with a value
ConfigEntries == { [ present |-> FALSE, value |-> FALSE ],
                   [ present |-> TRUE, value |-> FALSE ],
                   [ present |-> TRUE, value |-> TRUE ] }

ConfigFiles == [ terminateOnSegfault : ConfigEntries, terminateOnTrap : ConfigEntries ]

\* cfg->getBool(key, def)
getBool(entry, def) == IF entry.present THEN entry.value ELSE def

InitializeOp(env, effects) ==
    [ op |-> "initialize", path |-> 0, cmd |-> NoCommand, env |-> env, effects |-> effects,
      mem |-> << >>, ret |-> << >> ]

initialize ==
    /\ monitor = "constructed"
    /\ \E memoryMap \in BOOLEAN :
        IF ~memoryMap
        THEN /\ last' = InitializeOp([ memoryMap |-> FALSE ],
                    << Warning("Requires MemoryMap"), Call("exit", << -1 >>) >>)
             /\ monitor' = "exited"
             /\ UNCHANGED configVars
        ELSE \E cfg \in ConfigFiles :
             /\ m_terminateOnSegfault' = getBool(cfg.terminateOnSegfault, TRUE)
             /\ m_terminateOnTrap' = getBool(cfg.terminateOnTrap, TRUE)
             /\ m_commandSize' = "sizeof(S2E_LINUXMON_COMMAND)"
             /\ m_commandVersion' = "S2E_LINUXMON_COMMAND_VERSION"
             /\ last' = InitializeOp([ memoryMap |-> TRUE, cfg |-> cfg ], << >>)
             /\ monitor' = "running"
    /\ UNCHANGED << layoutVars, pathVars, lastInit >>

Init ==
    /\ \E l \in IndeterminateLayouts :
        /\ m_kernelStartAddress = l.page_offset
        /\ m_currentTaskAddr = l.current_task_address
        /\ m_taskStructPidOffset = l.task_struct_pid_offset
        /\ m_taskStructTgidOffset = l.task_struct_tgid_offset
    /\ m_terminateOnSegfault \in BOOLEAN
    /\ m_terminateOnTrap \in BOOLEAN
    /\ m_commandSize = "unassigned"
    /\ m_commandVersion = "unassigned"
    /\ monitor = "constructed"
    /\ initialized = [ p \in Paths |-> FALSE ]
    /\ switchForbidden = [ p \in Paths |-> FALSE ]
    /\ terminated = [ p \in Paths |-> FALSE ]
    /\ last = NoOp
    /\ lastInit = << >>

(***************************************************************************)
(* The accessors.                                                          *)
(***************************************************************************)
\* the address getPid reads the pid from, once the read of the current-task
\* pointer has succeeded
pidAddress(mem) == Add64(mem[m_currentTaskAddr], m_taskStructTgidOffset)

\* mutant of getPid: the int is widened without its sign
getPid_ZeroExtends(mem) ==
    IF ~CanRead(mem, m_currentTaskAddr) THEN AllOnes
    ELSE IF ~CanRead(mem, pidAddress(mem)) THEN AllOnes
    ELSE << mem[pidAddress(mem)][1], mem[pidAddress(mem)][2], 0, 0 >>

getPid(mem) ==
    IF ~CanRead(mem, m_currentTaskAddr) THEN AllOnes
    ELSE IF ~CanRead(mem, pidAddress(mem)) THEN AllOnes
    ELSE IntToU64(Low32(mem[pidAddress(mem)]))

\* the address getTid reads the tid from
tidAddress == Add64(m_currentTaskAddr, m_taskStructPidOffset)

\* mutant of getTid: the tid is read from the task structure, at
\* currentTask + m_taskStructPidOffset, as getPid reads the pid
getTid_Dereferencing(mem) ==
    IF ~CanRead(mem, m_currentTaskAddr) THEN AllOnes
    ELSE IF ~CanRead(mem, Add64(mem[m_currentTaskAddr], m_taskStructPidOffset)) THEN AllOnes
    ELSE mem[Add64(mem[m_currentTaskAddr], m_taskStructPidOffset)]

\* mutant of getTid: the read of the current-task pointer, whose value getTid
\* does not use, is left out
getTid_SkipsTaskRead(mem) ==
    IF ~CanRead(mem, tidAddress) THEN AllOnes ELSE mem[tidAddress]

getTid(mem) ==
    IF ~CanRead(mem, m_currentTaskAddr) THEN AllOnes
    ELSE IF ~CanRead(mem, tidAddress) THEN AllOnes
    ELSE mem[tidAddress]

\* a caller asks for the process id of path p, whose memory is mem
GetPid(p) ==
    /\ \E mem \in Memories : last' = AccessorOp("getPid", p, mem, getPid(mem))
    /\ UNCHANGED << layoutVars, configVars, pathVars, lastInit >>

\* a caller asks for the thread id of path p, whose memory is mem
GetTid(p) ==
    /\ \E mem \in Memories : last' = AccessorOp("getTid", p, mem, getTid(mem))
    /\ UNCHANGED << layoutVars, configVars, pathVars, lastInit >>

(***************************************************************************)
(* Routines of the base classes.                                           *)
(***************************************************************************)
\* completeInitialization(state): the first invocation on a path moves it to
\* Initialized, a later one changes nothing
completeInitialization(p) ==
    IF initialized[p] THEN initialized ELSE [ initialized EXCEPT ![p] = TRUE ]

(***************************************************************************)
(* The handlers.                                                           *)
(***************************************************************************)
\* mutant of handleSegfault: the path is terminated whatever the configuration
handleSegfault_AlwaysTerminates(p, cmd) ==
    /\ switchForbidden' = [ switchForbidden EXCEPT ![p] = TRUE ]
    /\ terminated' = [ terminated EXCEPT ![p] = TRUE ]
    /\ last' = CommandOp(p, cmd, << >>,
            << Warning("Received segfault"),
               SetStateSwitchForbidden,
               Emit("onSegFault", << cmd.currentPid, cmd.SegFault.pc >>),
               TerminateStateEarly("Segfault") >>)
    /\ UNCHANGED << layoutVars, configVars, initialized, lastInit >>

\* mutant of handleSegfault: the path is terminated without having been
\* marked non-switchable
handleSegfault_TerminatesUnmarked(p, cmd) ==
    /\ switchForbidden' = [ switchForbidden EXCEPT ![p] = ~m_terminateOnSegfault ]
    /\ terminated' = [ terminated EXCEPT ![p] = m_terminateOnSegfault ]
    /\ last' = CommandOp(p, cmd, << >>,
            << Warning("Received segfault") >>
            \o (IF m_terminateOnSegfault THEN << >> ELSE << SetStateSwitchForbidden >>)
            \o << Emit("onSegFault", << cmd.currentPid, cmd.SegFault.pc >>) >>
            \o (IF m_terminateOnSegfault THEN << TerminateStateEarly("Segfault") >> ELSE << >>))
    /\ UNCHANGED << layoutVars, configVars, initialized, lastInit >>

\* mutant of handleSegfault: the notification carries the faulting address in
\* the place of the faulting pc
handleSegfault_EmitsFaultAddress(p, cmd) ==
    /\ switchForbidden' = [ switchForbidden EXCEPT ![p] = TRUE ]
    /\ terminated' = [ terminated EXCEPT ![p] = m_terminateOnSegfault ]
    /\ last' = CommandOp(p, cmd, << >>,
            << Warning("Received segfault"),
               SetStateSwitchForbidden,
               Emit("onSegFault", << cmd.currentPid, cmd.SegFault.address >>) >>
            \o (IF m_terminateOnSegfault THEN << TerminateStateEarly("Segfault") >> ELSE << >>))
    /\ UNCHANGED << layoutVars, configVars, initialized, lastInit >>

handleSegfault(p, cmd) ==
    /\ switchForbidden' = [ switchForbidden EXCEPT ![p] = TRUE ]
    /\ terminated' = [ terminated EXCEPT ![p] = m_terminateOnSegfault ]
    /\ last' = CommandOp(p, cmd, << >>,
            << Warning("Received segfault"),
               SetStateSwitchForbidden,
               Emit("onSegFault", << cmd.currentPid, cmd.SegFault.pc >>) >>
            \o (IF m_terminateOnSegfault THEN << TerminateStateEarly("Segfault") >> ELSE << >>))
    /\ UNCHANGED << layoutVars, configVars, initialized, lastInit >>

\* mutant of handleProcessLoad: the call of completeInitialization is missing
handleProcessLoad_NoCompletion(p, cmd) ==
    /\ \E r \in ReadStringResults, pd \in PageDirs :
        last' = CommandOp(p, cmd, [ readString |-> r, pageDir |-> pd ],
            (IF ~r.ok THEN << Warning("could not read process path") >> ELSE << >>)
            \o << Emit("onProcessLoad", << pd, cmd.currentPid, filename(r.str) >>) >>)
    /\ UNCHANGED << layoutVars, configVars, pathVars, lastInit >>

\* mutant of handleProcessLoad: a failed read of the path ends the handler
\* before the notification, as in handleModuleLoad
handleProcessLoad_ReturnsOnFailure(p, cmd) ==
    /\ initialized' = completeInitialization(p)
    /\ \E r \in ReadStringResults, pd \in PageDirs :
        last' = CommandOp(p, cmd, [ readString |-> r, pageDir |-> pd ],
            << Call("completeInitialization", << KernelLayout >>) >>
            \o (IF ~r.ok
                THEN << Warning("could not read process path") >>
                ELSE << Emit("onProcessLoad", << pd, cmd.currentPid, filename(r.str) >>) >>))
    /\ UNCHANGED << layoutVars, configVars, switchForbidden, terminated, lastInit >>

handleProcessLoad(p, cmd) ==
    /\ initialized' = completeInitialization(p)
    /\ \E r \in ReadStringResults, pd \in PageDirs :
        last' = CommandOp(p, cmd, [ readString |-> r, pageDir |-> pd ],
            << Call("completeInitialization", << KernelLayout >>) >>
            \o (IF ~r.ok THEN << Warning("could not read process path") >> ELSE << >>)
            \o << Emit("onProcessLoad", << pd, cmd.currentPid, filename(r.str) >>) >>)
    /\ UNCHANGED << layoutVars, configVars, switchForbidden, terminated, lastInit >>

\* mutant of handleModuleLoad: the return after the failed read of the module
\* path is missing, so the handler goes on with the empty path
handleModuleLoad_NoReturn(p, cmd) ==
    /\ \E r \in ReadStringResults, data \in BinDatas, pd \in PageDirs :
        LET named == [ EmptyModuleDescriptor EXCEPT
                          !.Path = r.str,
                          !.Name = filename(r.str),
                          !.Size = cmd.ModuleLoad.size ]
            enriched == IF ~data.ef THEN named ELSE toModuleDescriptor(named, data)
            module == [ enriched EXCEPT
                          !.AddressSpace = pd,
                          !.Pid = cmd.currentPid,
                          !.LoadBase = cmd.ModuleLoad.load_base ]
        IN  last' = CommandOp(p, cmd, [ readString |-> r, getFromDisk |-> data, pageDir |-> pd ],
                    (IF ~r.ok THEN << Warning("could not read module path") >> ELSE << >>)
                    \o (IF ~data.ef THEN << Warning("Could not load from disk") >> ELSE << >>)
                    \o << Emit("onModuleLoad", << module >>) >>)
    /\ UNCHANGED << layoutVars, configVars, pathVars, lastInit >>

handleModuleLoad(p, cmd) ==
    /\ \E r \in ReadStringResults :
        IF ~r.ok
        THEN last' = CommandOp(p, cmd, [ readString |-> r ],
                        << Warning("could not read module path") >>)
        ELSE \E data \in BinDatas, pd \in PageDirs :
            LET named == [ EmptyModuleDescriptor EXCEPT
                              !.Path = r.str,
                              !.Name = filename(r.str),
                              !.Size = cmd.ModuleLoad.size ]
                enriched == IF ~data.ef THEN named ELSE toModuleDescriptor(named, data)
                module == [ enriched EXCEPT
                              !.AddressSpace = pd,
                              !.Pid = cmd.currentPid,
                              !.LoadBase = cmd.ModuleLoad.load_base ]
            IN  last' = CommandOp(p, cmd, [ readString |-> r, getFromDisk |-> data, pageDir |-> pd ],
                        (IF ~data.ef THEN << Warning("Could not load from disk") >> ELSE << >>)
                        \o << Emit("onModuleLoad", << module >>) >>)
    /\ UNCHANGED << layoutVars, configVars, pathVars, lastInit >>

handleProcessExit(p, cmd) ==
    /\ \E pd \in PageDirs :
        last' = CommandOp(p, cmd, [ pageDir |-> pd ],
            << Emit("onProcessUnload", << pd, cmd.currentPid, cmd.ProcessExit.code >>) >>)
    /\ UNCHANGED << layoutVars, configVars, pathVars, lastInit >>

\* mutant of handleTrap: the termination is gated by m_terminateOnSegfault
handleTrap_UsesSegfaultFlag(p, cmd) ==
    /\ switchForbidden' = [ switchForbidden EXCEPT ![p] = TRUE ]
    /\ terminated' = [ terminated EXCEPT ![p] = m_terminateOnSegfault ]
    /\ last' = CommandOp(p, cmd, << >>,
            << Warning("Received trap"),
               SetStateSwitchForbidden,
               Emit("onTrap", << cmd.currentPid, cmd.Trap.pc, cmd.Trap.trapnr >>) >>
            \o (IF m_terminateOnSegfault THEN << TerminateStateEarly("Trap") >> ELSE << >>))
    /\ UNCHANGED << layoutVars, configVars, initialized, lastInit >>

\* mutant of handleTrap: the marker and the termination are applied to every
\* path and not to the issuing one alone
handleTrap_AffectsAllPaths(p, cmd) ==
    /\ switchForbidden' = [ q \in Paths |-> TRUE ]
    /\ terminated' = [ q \in Paths |-> terminated[q] \/ m_terminateOnTrap ]
    /\ last' = CommandOp(p, cmd, << >>,
            << Warning("Received trap"),
               SetStateSwitchForbidden,
               Emit("onTrap", << cmd.currentPid, cmd.Trap.pc, cmd.Trap.trapnr >>) >>
            \o (IF m_terminateOnTrap THEN << TerminateStateEarly("Trap") >> ELSE << >>))
    /\ UNCHANGED << layoutVars, configVars, initialized, lastInit >>

\* mutant of handleTrap: the notification is emitted before the path is
\* marked non-switchable
handleTrap_EmitsBeforeMarking(p, cmd) ==
    /\ switchForbidden' = [ switchForbidden EXCEPT ![p] = TRUE ]
    /\ terminated' = [ terminated EXCEPT ![p] = m_terminateOnTrap ]
    /\ last' = CommandOp(p, cmd, << >>,
            << Warning("Received trap"),
               Emit("onTrap", << cmd.currentPid, cmd.Trap.pc, cmd.Trap.trapnr >>),
               SetStateSwitchForbidden >>
            \o (IF m_terminateOnTrap THEN << TerminateStateEarly("Trap") >> ELSE << >>))
    /\ UNCHANGED << layoutVars, configVars, initialized, lastInit >>

handleTrap(p, cmd) ==
    /\ switchForbidden' = [ switchForbidden EXCEPT ![p] = TRUE ]
    /\ terminated' = [ terminated EXCEPT ![p] = m_terminateOnTrap ]
    /\ last' = CommandOp(p, cmd, << >>,
            << Warning("Received trap"),
               SetStateSwitchForbidden,
               Emit("onTrap", << cmd.currentPid, cmd.Trap.pc, cmd.Trap.trapnr >>) >>
            \o (IF m_terminateOnTrap THEN << TerminateStateEarly("Trap") >> ELSE << >>))
    /\ UNCHANGED << layoutVars, configVars, initialized, lastInit >>

\* mutant of handleInit: the call of completeInitialization is missing
handleInit_NoCompletion(p, cmd) ==
    /\ m_kernelStartAddress' = cmd.Init.page_offset
    /\ m_currentTaskAddr' = cmd.Init.current_task_address
    /\ m_taskStructPidOffset' = cmd.Init.task_struct_pid_offset
    /\ m_taskStructTgidOffset' = cmd.Init.task_struct_tgid_offset
    /\ last' = CommandOp(p, cmd, << >>,
            << Call("loadKernelImage", << cmd.Init.start_kernel, KernelLayout' >>) >>)
    /\ lastInit' = << cmd.Init >> \o (IF lastInit = << >> THEN << >> ELSE << lastInit[1] >>)
    /\ UNCHANGED << configVars, pathVars >>

\* mutant of handleInit: the layout is written once, a later Init keeps it
handleInit_WriteOnce(p, cmd) ==
    /\ IF lastInit = << >>
        THEN /\ m_kernelStartAddress' = cmd.Init.page_offset
             /\ m_currentTaskAddr' = cmd.Init.current_task_address
             /\ m_taskStructPidOffset' = cmd.Init.task_struct_pid_offset
             /\ m_taskStructTgidOffset' = cmd.Init.task_struct_tgid_offset
        ELSE UNCHANGED layoutVars
    /\ initialized' = completeInitialization(p)
    /\ last' = CommandOp(p, cmd, << >>,
            << Call("completeInitialization", << KernelLayout' >>),
               Call("loadKernelImage", << cmd.Init.start_kernel, KernelLayout' >>) >>)
    /\ lastInit' = << cmd.Init >> \o (IF lastInit = << >> THEN << >> ELSE << lastInit[1] >>)
    /\ UNCHANGED << configVars, switchForbidden, terminated >>

\* mutant of handleInit: the completion routine runs before the four stores,
\* so it sees the layout of before this Init
handleInit_CompletesFirst(p, cmd) ==
    /\ m_kernelStartAddress' = cmd.Init.page_offset
    /\ m_currentTaskAddr' = cmd.Init.current_task_address
    /\ m_taskStructPidOffset' = cmd.Init.task_struct_pid_offset
    /\ m_taskStructTgidOffset' = cmd.Init.task_struct_tgid_offset
    /\ initialized' = completeInitialization(p)
    /\ last' = CommandOp(p, cmd, << >>,
            << Call("completeInitialization", << KernelLayout >>),
               Call("loadKernelImage", << cmd.Init.start_kernel, KernelLayout' >>) >>)
    /\ lastInit' = << cmd.Init >> \o (IF lastInit = << >> THEN << >> ELSE << lastInit[1] >>)
    /\ UNCHANGED << configVars, switchForbidden, terminated >>

handleInit(p, cmd) ==
    /\ m_kernelStartAddress' = cmd.Init.page_offset
    /\ m_currentTaskAddr' = cmd.Init.current_task_address
    /\ m_taskStructPidOffset' = cmd.Init.task_struct_pid_offset
    /\ m_taskStructTgidOffset' = cmd.Init.task_struct_tgid_offset
    /\ initialized' = completeInitialization(p)
    /\ last' = CommandOp(p, cmd, << >>,
            << Call("completeInitialization", << KernelLayout' >>),
               Call("loadKernelImage", << cmd.Init.start_kernel, KernelLayout' >>) >>)
    /\ lastInit' = << cmd.Init >> \o (IF lastInit = << >> THEN << >> ELSE << lastInit[1] >>)
    /\ UNCHANGED << configVars, switchForbidden, terminated >>

\* handleKernelPanic(state, message, message_size) of the base class: the
\* panic handler is given the message buffer; whether it ends the path is its
\* own decision
handleKernelPanic(p, cmd) ==
    /\ \E terminal \in BOOLEAN :
        /\ terminated' = [ terminated EXCEPT ![p] = terminal ]
        /\ last' = CommandOp(p, cmd, [ terminal |-> terminal ],
                << Call("handleKernelPanic", << cmd.Panic.message, cmd.Panic.message_size >>) >>)
    /\ UNCHANGED << layoutVars, configVars, initialized, switchForbidden, lastInit >>

handleMemMap(p, cmd) ==
    /\ last' = CommandOp(p, cmd, << >>,
            << Emit("onMemoryMap", << cmd.currentPid, cmd.MemMap.address, cmd.MemMap.size,
                                      cmd.MemMap.prot >>) >>)
    /\ UNCHANGED << layoutVars, configVars, pathVars, lastInit >>

\* mutant of handleMemUnmap: a range whose end is below its start is
\* announced with size zero
handleMemUnmap_Saturating(p, cmd) ==
    LET raw == Sub64(cmd.MemUnmap.end, cmd.MemUnmap.start)
        size == IF Add64(raw, cmd.MemUnmap.start) = cmd.MemUnmap.end
                   /\ raw[4] < LimbBase \div 2 THEN raw ELSE U64(0)
    IN  /\ last' = CommandOp(p, cmd, << >>,
                << Emit("onMemoryUnmap", << cmd.currentPid, cmd.MemUnmap.start, size >>) >>)
        /\ UNCHANGED << layoutVars, configVars, pathVars, lastInit >>

handleMemUnmap(p, cmd) ==
    /\ LET size == Sub64(cmd.MemUnmap.end, cmd.MemUnmap.start)
       IN  last' = CommandOp(p, cmd, << >>,
            << Emit("onMemoryUnmap", << cmd.currentPid, cmd.MemUnmap.start, size >>) >>)
    /\ UNCHANGED << layoutVars, configVars, pathVars, lastInit >>

\* mutant of handleMemProtect: the change of protection is announced on the
\* memory-map signal
handleMemProtect_EmitsMap(p, cmd) ==
    /\ last' = CommandOp(p, cmd, << >>,
            << Emit("onMemoryMap", << cmd.currentPid, cmd.MemProtect.start,
                                      cmd.MemProtect.size, cmd.MemProtect.prot >>) >>)
    /\ UNCHANGED << layoutVars, configVars, pathVars, lastInit >>

handleMemProtect(p, cmd) ==
    /\ last' = CommandOp(p, cmd, << >>,
            << Emit("onMemoryProtect", << cmd.currentPid, cmd.MemProtect.start,
                                          cmd.MemProtect.size, cmd.MemProtect.prot >>) >>)
    /\ UNCHANGED << layoutVars, configVars, pathVars, lastInit >>

\* mutant of unknownCommand: a default case reports the unknown command
unknownCommand_Reports(p, cmd) ==
    /\ last' = CommandOp(p, cmd, << >>, << Warning("unknown command") >>)
    /\ UNCHANGED << layoutVars, configVars, pathVars, lastInit >>

\* the switch of handleCommand has no default case: a command of no case
\* leaves it with nothing done
unknownCommand(p, cmd) ==
    /\ last' = CommandOp(p, cmd, << >>, << >>)
    /\ UNCHANGED << layoutVars, configVars, pathVars, lastInit >>

handleCommand(p, cmd) ==
    \/ cmd.Command = "LINUX_SEGFAULT" /\ handleSegfault(p, cmd)
    \/ cmd.Command = "LINUX_PROCESS_LOAD" /\ handleProcessLoad(p, cmd)
    \/ cmd.Command = "LINUX_MODULE_LOAD" /\ handleModuleLoad(p, cmd)
    \/ cmd.Command = "LINUX_TRAP" /\ handleTrap(p, cmd)
    \/ cmd.Command = "LINUX_PROCESS_EXIT" /\ handleProcessExit(p, cmd)
    \/ cmd.Command = "LINUX_INIT" /\ handleInit(p, cmd)
    \/ cmd.Command = "LINUX_KERNEL_PANIC" /\ handleKernelPanic(p, cmd)
    \/ cmd.Command = "LINUX_MEMORY_MAP" /\ handleMemMap(p, cmd)
    \/ cmd.Command = "LINUX_MEMORY_UNMAP" /\ handleMemUnmap(p, cmd)
    \/ cmd.Command = "LINUX_MEMORY_PROTECT" /\ handleMemProtect(p, cmd)
    \/ cmd.Command \notin KnownKinds /\ unknownCommand(p, cmd)

(***************************************************************************)
(* The monitor is invoked synchronously: it handles one command at a time, *)
(* on the path that issued it, and the next operation starts only after    *)
(* the previous one has returned.  `last` holds the record of the          *)
(* operation that has just run until control returns to the guest.  A      *)
(* terminated path issues no further command and is asked nothing.         *)
(***************************************************************************)
HandleCommand ==
    /\ monitor = "running"
    /\ last = NoOp
    /\ \E p \in Paths : ~terminated[p] /\ \E cmd \in Commands : handleCommand(p, cmd)
    /\ UNCHANGED monitor

CallGetPid ==
    /\ monitor = "running"
    /\ last = NoOp
    /\ \E p \in Paths : ~terminated[p] /\ GetPid(p)
    /\ UNCHANGED monitor

CallGetTid ==
    /\ monitor = "running"
    /\ last = NoOp
    /\ \E p \in Paths : ~terminated[p] /\ GetTid(p)
    /\ UNCHANGED monitor

\* control returns to the guest, or to the caller of the accessor or of
\* initialize()
Return ==
    /\ monitor = "running"
    /\ last # NoOp
    /\ last' = NoOp
    /\ UNCHANGED << layoutVars, configVars, pathVars, lastInit, monitor >>

Next == initialize \/ HandleCommand \/ CallGetPid \/ CallGetTid \/ Return

Spec == Init /\ [][Next]_vars

(***************************************************************************)
(* Vocabulary of the properties.                                           *)
(***************************************************************************)
\* the operation that has just run handled a command of this kind
Handled(kind) == last.op = "handleCommand" /\ last.cmd.Command = kind

\* an Init command has been handled
LayoutSet == lastInit # << >>

\* both reads of the accessor that has just run succeeded
TidReadsSucceed ==
    /\ CanRead(last.mem, m_currentTaskAddr)
    /\ CanRead(last.mem, Add64(m_currentTaskAddr, m_taskStructPidOffset))

PidReadsSucceed ==
    /\ CanRead(last.mem, m_currentTaskAddr)
    /\ CanRead(last.mem, Add64(last.mem[m_currentTaskAddr], m_taskStructTgidOffset))

\* with the layout set and its reads succeeding, getTid returns the cell at
\* T + idOff and getPid the int at *T + gidOff, widened to 64 bits
AccessorsReadTheirFields ==
    /\ (last.op = "getTid" /\ LayoutSet /\ TidReadsSucceed) =>
            last.ret = last.mem[Add64(m_currentTaskAddr, m_taskStructPidOffset)]
    /\ (last.op = "getPid" /\ LayoutSet /\ PidReadsSucceed) =>
            last.ret = IntToU64(Low32(
                last.mem[Add64(last.mem[m_currentTaskAddr], m_taskStructTgidOffset)]))

(***************************************************************************)
(* C1 as stated: getThreadId returns the value at T + idOff, getProcessId  *)
(* the value at *T + gidOff, and in every memory where T and *T differ the *)
(* two accessors read from different addresses.  The last part fails: with *)
(* T = 0x3000, idOff = 16, gidOff = 8 and *T = 0x3008 both read 0x3010.    *)
(***************************************************************************)
C1_AsStated ==
    /\ AccessorsReadTheirFields
    /\ (last.op \in { "getPid", "getTid" } /\ LayoutSet /\ TidReadsSucceed /\ PidReadsSucceed
            /\ last.mem[m_currentTaskAddr] # m_currentTaskAddr) =>
            tidAddress # pidAddress(last.mem)

(***************************************************************************)
(* C1, amended: with the KernelLayout (taskPtr = T, idOff = I, gidOff = G) *)
(* set and all reads succeeding, getThreadId returns the value stored at   *)
(* T + I and getProcessId the value stored at *T + G; the two accessors    *)
(* read from different addresses in every memory where *T - T differs from *)
(* I - G modulo 2^64 (T # *T alone is not enough when the offsets differ). *)
(***************************************************************************)
C1_AccessorAddresses ==
    /\ AccessorsReadTheirFields
    /\ (last.op \in { "getPid", "getTid" } /\ LayoutSet /\ TidReadsSucceed /\ PidReadsSucceed
            /\ Sub64(last.mem[m_currentTaskAddr], m_currentTaskAddr)
                    # Sub64(m_taskStructPidOffset, m_taskStructTgidOffset)) =>
            tidAddress # pidAddress(last.mem)

\* getProcessId has run with the layout set, T and *T different, both of its
\* reads and both reads of getThreadId succeeding, and the two accessors'
\* addresses differ
C1_Witness ==
    /\ last.op = "getPid" /\ LayoutSet /\ PidReadsSucceed /\ TidReadsSucceed
    /\ last.mem[m_currentTaskAddr] # m_currentTaskAddr
    /\ tidAddress # pidAddress(last.mem)
    /\ last.ret # getTid(last.mem)
    /\ last.ret # AllOnes

(***************************************************************************)
(* C2: after Init(base = 0x1000, taskPtr = 0x2000, idOff = 8, gidOff = 16) *)
(* and with a guest memory in which 0x2000 holds 0x3000, 0x3008 holds 42   *)
(* and 0x3010 holds 7, getThreadId returns 42 and getProcessId returns 7.  *)
(* getTid reads 0x2008, which the fixture does not hold.                   *)
(***************************************************************************)
C2_EndToEnd ==
    (/\ LayoutSet
     /\ lastInit[1].page_offset = U64(4096)
     /\ lastInit[1].current_task_address = U64(8192)
     /\ lastInit[1].task_struct_pid_offset = U64(8)
     /\ lastInit[1].task_struct_tgid_offset = U64(16)
     /\ { U64(8192), U64(12296), U64(12304) } \subseteq DOMAIN last.mem
     /\ last.mem[U64(8192)] = U64(12288)
     /\ last.mem[U64(12296)] = U64(42)
     /\ last.mem[U64(12304)] = U64(7))
    => /\ last.op = "getTid" => last.ret = U64(42)
       /\ last.op = "getPid" => last.ret = U64(7)

(***************************************************************************)
(* C3: while no Init command has been handled, getProcessId and            *)
(* getThreadId return the all-ones sentinel, whatever the guest memory     *)
(* holds.  The accessors do not test whether the layout was set: they read *)
(* through the fields as they are.                                         *)
(***************************************************************************)
C3_UnknownBeforeInit ==
    (last.op \in { "getPid", "getTid" } /\ ~LayoutSet) => last.ret = AllOnes

(***************************************************************************)
(* C4: a command whose kind is none of the ten enumerated kinds emits no   *)
(* notification, reports nothing, issues no control action, and leaves the *)
(* KernelLayout and every path's flags as they were.                       *)
(***************************************************************************)
C4_UnknownKindIgnored ==
    [][ (last'.op = "handleCommand" /\ last'.cmd.Command \notin KnownKinds) =>
            /\ last'.effects = << >>
            /\ UNCHANGED << layoutVars, pathVars >> ]_vars

\* a command of an unknown kind has been handled after an Init
C4_Witness ==
    /\ last.op = "handleCommand"
    /\ last.cmd.Command \in UnknownKinds
    /\ LayoutSet

(***************************************************************************)
(* C5: a ModuleLoad whose path-string read fails emits no notification; a  *)
(* ModuleLoad whose string read succeeds but whose binary-metadata lookup  *)
(* fails emits exactly one module-load notification, whose descriptor      *)
(* carries the guest-declared fields only: path, name derived from the     *)
(* path, declared size, load base, address-space id and process id.        *)
(***************************************************************************)
C5_ModuleLoadNotification ==
    Handled("LINUX_MODULE_LOAD") =>
        /\ ~last.env.readString.ok => EffectsOf(last.effects, "emit") = << >>
        /\ (last.env.readString.ok /\ ~last.env.getFromDisk.ef) =>
                EffectsOf(last.effects, "emit") =
                    << Emit("onModuleLoad",
                        << [ Name |-> filename(last.env.readString.str),
                             Path |-> last.env.readString.str,
                             AddressSpace |-> last.env.pageDir,
                             Pid |-> last.cmd.currentPid,
                             LoadBase |-> last.cmd.ModuleLoad.load_base,
                             NativeBase |-> U64(0),
                             Size |-> last.cmd.ModuleLoad.size,
                             EntryPoint |-> U64(0) ] >>) >>

\* a ModuleLoad has been handled whose path was read and whose image was not
\* found on disk
C5_Witness ==
    /\ Handled("LINUX_MODULE_LOAD")
    /\ last.env.readString.ok
    /\ Len(last.env.readString.str) > 1
    /\ ~last.env.getFromDisk.ef
    /\ Len(Emitted(last.effects, "onModuleLoad")) = 1

(***************************************************************************)
(* C6: handling a SegFault emits the fault notification once and marks the *)
(* issuing path non-switchable; terminateStateEarly is called once when    *)
(* terminateOnSegfault is true and not at all when it is false.            *)
(***************************************************************************)
C6_SegfaultControl ==
    Handled("LINUX_SEGFAULT") =>
        /\ Len(Emitted(last.effects, "onSegFault")) = 1
        /\ Len(EffectsOf(last.effects, "emit")) = 1
        /\ Len(EffectsOf(last.effects, "setStateSwitchForbidden")) = 1
        /\ switchForbidden[last.path]
        /\ Len(EffectsOf(last.effects, "terminateStateEarly")) =
                (IF m_terminateOnSegfault THEN 1 ELSE 0)
        /\ terminated[last.path] = m_terminateOnSegfault

\* a SegFault has been handled with terminateOnSegfault = false
C6_Witness ==
    /\ Handled("LINUX_SEGFAULT")
    /\ ~m_terminateOnSegfault
    /\ m_terminateOnTrap
    /\ switchForbidden[last.path]
    /\ ~terminated[last.path]

(***************************************************************************)
(* C7: handling a Trap emits the trap notification once and marks the      *)
(* issuing path non-switchable; terminateStateEarly is called once when    *)
(* terminateOnTrap is true and not at all when it is false, whatever       *)
(* terminateOnSegfault is.                                                 *)
(***************************************************************************)
C7_TrapControl ==
    Handled("LINUX_TRAP") =>
        /\ Len(Emitted(last.effects, "onTrap")) = 1
        /\ Len(EffectsOf(last.effects, "emit")) = 1
        /\ Len(EffectsOf(last.effects, "setStateSwitchForbidden")) = 1
        /\ switchForbidden[last.path]
        /\ Len(EffectsOf(last.effects, "terminateStateEarly")) =
                (IF m_terminateOnTrap THEN 1 ELSE 0)
        /\ terminated[last.path] = m_terminateOnTrap

\* a Trap has been handled with terminateOnTrap = false and
\* terminateOnSegfault = true
C7_Witness ==
    /\ Handled("LINUX_TRAP")
    /\ ~m_terminateOnTrap
    /\ m_terminateOnSegfault
    /\ switchForbidden[last.path]
    /\ ~terminated[last.path]

(***************************************************************************)
(* C8: the initialization-completion routine is idempotent.  An Init or a  *)
(* ProcessLoad invokes it once; on an Uninitialized path that moves the    *)
(* path to Initialized, on an Initialized path it changes no flag; no step *)
(* takes an Initialized path back to Uninitialized.                        *)
(***************************************************************************)
C8_CompletionIdempotent ==
    [][ \A p \in Paths :
            /\ initialized[p] => initialized'[p]
            /\ (/\ last'.op = "handleCommand"
                /\ last'.path = p
                /\ last'.cmd.Command \in { "LINUX_INIT", "LINUX_PROCESS_LOAD" }) =>
                    /\ Len(SelectSeq(last'.effects,
                            LAMBDA e : e.op = "call" /\ e.name = "completeInitialization")) = 1
                    /\ initialized'[p]
                    /\ initialized[p] => initialized' = initialized
                    /\ \A q \in Paths \ { p } : initialized'[q] = initialized[q] ]_vars

\* a ProcessLoad has been handled on the path that handled the Init before:
\* the routine has run twice on it
C8_Witness ==
    /\ Handled("LINUX_PROCESS_LOAD")
    /\ LayoutSet
    /\ initialized[last.path]
    /\ \A q \in Paths \ { last.path } : ~initialized[q]

(***************************************************************************)
(* C9 as stated: after an Init, a ProcessLoad or a ModuleLoad on a path,   *)
(* the path is Initialized.  handleModuleLoad does not invoke the          *)
(* completion routine.                                                     *)
(***************************************************************************)
C9_AsStated ==
    (/\ last.op = "handleCommand"
     /\ last.cmd.Command \in { "LINUX_INIT", "LINUX_PROCESS_LOAD", "LINUX_MODULE_LOAD" })
    => initialized[last.path]

(***************************************************************************)
(* C9, amended: the initialization flag of a path is set in response to an *)
(* Init or a ProcessLoad, and stays set: after any command sequence on a   *)
(* path that contains an Init or a ProcessLoad the path is Initialized.  A *)
(* ModuleLoad does not set it: it leaves every path's flag as it was,      *)
(* whether its notification is emitted (the read of the module path        *)
(* succeeded) or not (the read failed).                                    *)
(***************************************************************************)
C9_InitOrProcessLoadInitializes ==
    [][ /\ \A p \in Paths : initialized[p] => initialized'[p]
        /\ (/\ last'.op = "handleCommand"
            /\ last'.cmd.Command \in { "LINUX_INIT", "LINUX_PROCESS_LOAD" }) =>
                initialized'[last'.path]
        /\ (/\ last'.op = "handleCommand"
            /\ last'.cmd.Command = "LINUX_MODULE_LOAD") =>
                /\ initialized' = initialized
                /\ Len(Emitted(last'.effects, "onModuleLoad")) =
                        (IF last'.env.readString.ok THEN 1 ELSE 0) ]_vars

\* a ModuleLoad whose path read succeeded has been handled, and its
\* notification emitted, on a path that has seen neither an Init nor a
\* ProcessLoad: the path is Uninitialized
C9_Witness ==
    /\ Handled("LINUX_MODULE_LOAD")
    /\ last.env.readString.ok
    /\ Len(Emitted(last.effects, "onModuleLoad")) = 1
    /\ ~initialized[last.path]

(***************************************************************************)
(* C10: last write wins.  An Init stores its four payload fields in the    *)
(* KernelLayout, silently, whether or not an Init came before; no other    *)
(* operation changes any of the four; so the KernelLayout equals the       *)
(* payload of the most recent Init.                                        *)
(***************************************************************************)
PayloadLayout(init) ==
    [ page_offset |-> init.page_offset,
      current_task_address |-> init.current_task_address,
      task_struct_pid_offset |-> init.task_struct_pid_offset,
      task_struct_tgid_offset |-> init.task_struct_tgid_offset ]

C10_LastWriteWins ==
    [][ /\ (last'.op = "handleCommand" /\ last'.cmd.Command = "LINUX_INIT") =>
                /\ KernelLayout' = PayloadLayout(last'.cmd.Init)
                /\ EffectsOf(last'.effects, "warning") = << >>
        /\ ~(last'.op = "handleCommand" /\ last'.cmd.Command = "LINUX_INIT") =>
                UNCHANGED layoutVars
        /\ LayoutSet' => KernelLayout' = PayloadLayout(lastInit'[1]) ]_vars

\* a second Init, with another payload than the first, has been handled
C10_Witness ==
    /\ Handled("LINUX_INIT")
    /\ Len(lastInit) = 2
    /\ PayloadLayout(lastInit[1]) # PayloadLayout(lastInit[2])
    /\ KernelLayout = PayloadLayout(lastInit[1])

(***************************************************************************)
(* C11: getProcessId and getThreadId never abort.  When the read of the    *)
(* current-task pointer at T fails, or the read of the id or group-id      *)
(* field after it fails, the accessor returns the all-ones sentinel, and   *)
(* no accessor call changes the monitor's state; getThreadId returns the   *)
(* sentinel when the read at T fails even if T + idOff is readable.        *)
(***************************************************************************)
C11_AccessorsDegrade ==
    [][ last'.op \in { "getPid", "getTid" } =>
            /\ UNCHANGED << layoutVars, configVars, pathVars, lastInit >>
            /\ ~CanRead(last'.mem, m_currentTaskAddr) => last'.ret = AllOnes
            /\ (/\ last'.op = "getPid"
                /\ CanRead(last'.mem, m_currentTaskAddr)
                /\ ~CanRead(last'.mem,
                        Add64(last'.mem[m_currentTaskAddr], m_taskStructTgidOffset))) =>
                    last'.ret = AllOnes
            /\ (/\ last'.op = "getTid"
                /\ ~CanRead(last'.mem, Add64(m_currentTaskAddr, m_taskStructPidOffset))) =>
                    last'.ret = AllOnes ]_vars

\* getThreadId has run, after an Init, on a memory where T is unreadable and
\* T + idOff is readable, and has returned the sentinel
C11_Witness ==
    /\ last.op = "getTid"
    /\ LayoutSet
    /\ ~CanRead(last.mem, m_currentTaskAddr)
    /\ CanRead(last.mem, Add64(m_currentTaskAddr, m_taskStructPidOffset))
    /\ last.mem[Add64(m_currentTaskAddr, m_taskStructPidOffset)] # AllOnes
    /\ last.ret = AllOnes

(***************************************************************************)
(* C12, as stated: the fault notification carries (fault kind, faulting    *)
(* pc, faulting address, process id, address-space id) and the trap        *)
(* notification carries (process id, trap pc, trap number, signal number). *)
(***************************************************************************)
C12_AsStated ==
    /\ Handled("LINUX_SEGFAULT") =>
        \E pd \in PageDirs :
            Emitted(last.effects, "onSegFault") =
                << Emit("onSegFault", << last.cmd.SegFault.fault, last.cmd.SegFault.pc,
                                         last.cmd.SegFault.address, last.cmd.currentPid, pd >>) >>
    /\ Handled("LINUX_TRAP") =>
        Emitted(last.effects, "onTrap") =
            << Emit("onTrap", << last.cmd.currentPid, last.cmd.Trap.pc,
                                 last.cmd.Trap.trapnr, last.cmd.Trap.signr >>) >>

(***************************************************************************)
(* C12, amended: the fault notification carries exactly (process id,       *)
(* faulting pc) and the trap notification exactly (process id, trap pc,    *)
(* trap number), all taken from the command; the fault kind, the faulting  *)
(* address, the address-space id and the signal number are not part of     *)
(* either notification.                                                    *)
(***************************************************************************)
C12_NotificationFields ==
    /\ Handled("LINUX_SEGFAULT") =>
        EffectsOf(last.effects, "emit") =
            << Emit("onSegFault", << last.cmd.currentPid, last.cmd.SegFault.pc >>) >>
    /\ Handled("LINUX_TRAP") =>
        EffectsOf(last.effects, "emit") =
            << Emit("onTrap", << last.cmd.currentPid, last.cmd.Trap.pc,
                                 last.cmd.Trap.trapnr >>) >>

\* a Trap has been handled whose signal number differs from its trap number
\* and whose notification has three fields
C12_Witness ==
    /\ Handled("LINUX_TRAP")
    /\ last.cmd.Trap.signr # last.cmd.Trap.trapnr
    /\ Len(Emitted(last.effects, "onTrap")) = 1
    /\ Len(Emitted(last.effects, "onTrap")[1].args) = 3

(***************************************************************************)
(* C13: handling a ProcessLoad emits exactly one process-load notification *)
(* carrying (address-space id, the command's process id, file name of the  *)
(* path read from the guest), whether or not the read of the path          *)
(* succeeded; after a failed read the file name is empty; the handler      *)
(* neither marks the path non-switchable nor requests termination.         *)
(***************************************************************************)
C13_ProcessLoadNotification ==
    [][ (last'.op = "handleCommand" /\ last'.cmd.Command = "LINUX_PROCESS_LOAD") =>
            /\ EffectsOf(last'.effects, "emit") =
                    << Emit("onProcessLoad", << last'.env.pageDir, last'.cmd.currentPid,
                                                filename(last'.env.readString.str) >>) >>
            /\ ~last'.env.readString.ok =>
                    EffectsOf(last'.effects, "emit")[1].args[3] = << >>
            /\ EffectsOf(last'.effects, "setStateSwitchForbidden") = << >>
            /\ EffectsOf(last'.effects, "terminateStateEarly") = << >>
            /\ UNCHANGED << switchForbidden, terminated >> ]_vars

\* a ProcessLoad whose path read failed has been handled and has emitted its
\* notification with an empty file name
C13_Witness ==
    /\ Handled("LINUX_PROCESS_LOAD")
    /\ ~last.env.readString.ok
    /\ Len(Emitted(last.effects, "onProcessLoad")) = 1
    /\ Emitted(last.effects, "onProcessLoad")[1].args[3] = << >>
    /\ Len(EffectsOf(last.effects, "warning")) = 1

(***************************************************************************)
(* C14: within the handling of a SegFault or a Trap, the call that marks   *)
(* the path non-switchable comes before the notification and before the    *)
(* termination request: every emit and every terminateStateEarly of the    *)
(* handler follows its setStateSwitchForbidden(true).                      *)
(***************************************************************************)
C14_MarkedBeforeNotified ==
    (Handled("LINUX_SEGFAULT") \/ Handled("LINUX_TRAP")) =>
        /\ EffectsOf(last.effects, "emit") # << >>
        /\ \E i \in 1..Len(last.effects) :
            /\ last.effects[i] = SetStateSwitchForbidden
            /\ \A j \in 1..Len(last.effects) :
                last.effects[j].op \in { "emit", "terminateStateEarly" } => i < j

\* a Trap has been handled with terminateOnTrap = true: the marking, the
\* notification and the termination request all happened, in that order
C14_Witness ==
    /\ Handled("LINUX_TRAP")
    /\ m_terminateOnTrap
    /\ Len(last.effects) = 4
    /\ last.effects[2].op = "setStateSwitchForbidden"
    /\ last.effects[3].op = "emit"
    /\ last.effects[4].op = "terminateStateEarly"

(***************************************************************************)
(* C15: handling an Init stores the four KernelLayout fields, then runs    *)
(* the initialization-completion routine, then triggers the load of the    *)
(* kernel image at the payload's start address: both calls are made with   *)
(* the KernelLayout of this Init already stored, completion first.         *)
(***************************************************************************)
C15_InitOrder ==
    Handled("LINUX_INIT") =>
        /\ KernelLayout = PayloadLayout(last.cmd.Init)
        /\ last.effects =
            << Call("completeInitialization", << PayloadLayout(last.cmd.Init) >>),
               Call("loadKernelImage",
                    << last.cmd.Init.start_kernel, PayloadLayout(last.cmd.Init) >>) >>

\* a second Init with a different layout has been handled: the layout its
\* completion routine saw is the new one and not the one stored before
C15_Witness ==
    /\ Handled("LINUX_INIT")
    /\ Len(lastInit) = 2
    /\ PayloadLayout(lastInit[1]) # PayloadLayout(lastInit[2])
    /\ last.cmd.Init = lastInit[1]
    /\ last.effects[1].name = "completeInitialization"
    /\ last.effects[1].args[1] = PayloadLayout(lastInit[1])
    /\ last.effects[2].name = "loadKernelImage"

(***************************************************************************)
(* C16: the monitor requests termination only of a path it has already     *)
(* marked non-switchable, and never clears the marker: a step in which the *)
(* monitor calls terminateStateEarly has marked that path before the call  *)
(* and leaves it marked and terminated, and no step of any operation turns *)
(* a marked path into an unmarked one.  (What the panic-message handler    *)
(* does to the path is the collaborator's action, not a termination        *)
(* requested by the monitor.)                                              *)
(***************************************************************************)
C16_TerminatesOnlyMarked ==
    [][ /\ \A q \in Paths : switchForbidden[q] => switchForbidden'[q]
        /\ \A j \in 1..Len(last'.effects) :
            last'.effects[j].op = "terminateStateEarly" =>
                /\ \E i \in 1..(j - 1) : last'.effects[i] = SetStateSwitchForbidden
                /\ switchForbidden'[last'.path]
                /\ terminated'[last'.path] ]_vars

\* the monitor has just terminated a path, which is marked, while another
\* path marked by an earlier command is still marked and running
C16_Witness ==
    /\ last.op = "handleCommand"
    /\ EffectsOf(last.effects, "terminateStateEarly") # << >>
    /\ switchForbidden[last.path]
    /\ terminated[last.path]
    /\ \E q \in Paths : q # last.path /\ switchForbidden[q] /\ ~terminated[q]

(***************************************************************************)
(* C17: ProcessExit, MemoryMap, MemoryUnmap and MemoryProtect each emit    *)
(* exactly one notification, on their own signal (process-unload,          *)
(* memory-map, memory-unmap, memory-protect), and nothing else: they       *)
(* neither mark the path non-switchable nor request termination, and leave *)
(* KernelLayout, the initialization flag, the marker and the termination   *)
(* state of every path unchanged, whatever the two configuration flags.    *)
(***************************************************************************)
OwnSignal(kind) ==
    CASE kind = "LINUX_PROCESS_EXIT" -> "onProcessUnload"
      [] kind = "LINUX_MEMORY_MAP" -> "onMemoryMap"
      [] kind = "LINUX_MEMORY_UNMAP" -> "onMemoryUnmap"
      [] kind = "LINUX_MEMORY_PROTECT" -> "onMemoryProtect"

C17_NotifyOnly ==
    [][ (/\ last'.op = "handleCommand"
         /\ last'.cmd.Command \in { "LINUX_PROCESS_EXIT", "LINUX_MEMORY_MAP",
                                    "LINUX_MEMORY_UNMAP", "LINUX_MEMORY_PROTECT" }) =>
            /\ Len(last'.effects) = 1
            /\ last'.effects[1].op = "emit"
            /\ last'.effects[1].name = OwnSignal(last'.cmd.Command)
            /\ UNCHANGED << layoutVars, configVars, pathVars >> ]_vars

\* a MemoryProtect has been handled on a path that is neither initialized nor
\* marked, with both termination flags set
C17_Witness ==
    /\ Handled("LINUX_MEMORY_PROTECT")
    /\ m_terminateOnSegfault /\ m_terminateOnTrap
    /\ Len(Emitted(last.effects, "onMemoryProtect")) = 1
    /\ ~initialized[last.path]
    /\ ~switchForbidden[last.path]
    /\ ~terminated[last.path]

(***************************************************************************)
(* C18: path-level effects are per path while KernelLayout is shared.      *)
(* With commands of several paths handled one at a time in any order, a    *)
(* SegFault or Trap on path A marks path A and changes the marker and the  *)
(* termination state of no other path, whereas an Init handled on any path *)
(* sets the one KernelLayout, and from then on getProcessId and            *)
(* getThreadId called on any path, the issuing one or another, read at the *)
(* addresses of the most recent Init.                                      *)
(***************************************************************************)
\* what the accessors return in memory mem under layout l
TidUnder(l, mem) ==
    LET T == l.current_task_address
        a == Add64(T, l.task_struct_pid_offset)
    IN  IF CanRead(mem, T) /\ CanRead(mem, a) THEN mem[a] ELSE AllOnes

PidUnder(l, mem) ==
    LET T == l.current_task_address
    IN  IF CanRead(mem, T) /\ CanRead(mem, Add64(mem[T], l.task_struct_tgid_offset))
        THEN IntToU64(Low32(mem[Add64(mem[T], l.task_struct_tgid_offset)]))
        ELSE AllOnes

C18_PathLocalLayoutShared ==
    [][ /\ (/\ last'.op = "handleCommand"
            /\ last'.cmd.Command \in { "LINUX_SEGFAULT", "LINUX_TRAP" }) =>
                /\ switchForbidden'[last'.path]
                /\ \A q \in Paths \ { last'.path } :
                    /\ switchForbidden'[q] = switchForbidden[q]
                    /\ terminated'[q] = terminated[q]
        /\ (last'.op = "handleCommand" /\ last'.cmd.Command = "LINUX_INIT") =>
                KernelLayout' = PayloadLayout(last'.cmd.Init)
        /\ (last'.op = "getTid" /\ LayoutSet) =>
                last'.ret = TidUnder(PayloadLayout(lastInit[1]), last'.mem)
        /\ (last'.op = "getPid" /\ LayoutSet) =>
                last'.ret = PidUnder(PayloadLayout(lastInit[1]), last'.mem) ]_vars

\* an accessor has run on a path that handled no Init itself and has read a
\* value at the addresses of the Init another path handled; that other path
\* has since been marked and terminated, and this one is untouched
C18_Witness ==
    /\ last.op \in { "getPid", "getTid" }
    /\ LayoutSet
    /\ ~initialized[last.path]
    /\ last.ret # AllOnes
    /\ last.ret = (IF last.op = "getTid"
                   THEN TidUnder(PayloadLayout(lastInit[1]), last.mem)
                   ELSE PidUnder(PayloadLayout(lastInit[1]), last.mem))
    /\ ~switchForbidden[last.path]
    /\ \E a \in Paths \ { last.path } :
        initialized[a] /\ switchForbidden[a] /\ terminated[a]

(***************************************************************************)
(* C19, as stated: getProcessId returns the all-ones sentinel only when    *)
(* one of its guest-memory reads failed, whatever 32-bit value the         *)
(* group-id field holds.                                                   *)
(***************************************************************************)
C19_AsStated ==
    (last.op = "getPid" /\ LayoutSet /\ last.ret = AllOnes) => ~PidReadsSucceed

(***************************************************************************)
(* C19, amended: getProcessId returns the all-ones sentinel exactly when   *)
(* one of its reads failed or the int stored in the group-id field is -1;  *)
(* every other stored value is returned sign-extended to 64 bits and       *)
(* differs from the sentinel.                                              *)
(***************************************************************************)
\* the int the group-id field holds in the memory of the last accessor call
StoredPid == Low32(last.mem[Add64(last.mem[m_currentTaskAddr], m_taskStructTgidOffset)])

MinusOne32 == << LimbBase - 1, LimbBase - 1 >>

C19_SentinelOnlyForMinusOne ==
    last.op = "getPid" =>
        /\ last.ret = AllOnes <=> (~PidReadsSucceed \/ StoredPid = MinusOne32)
        /\ PidReadsSucceed =>
            /\ last.ret[1] = StoredPid[1]
            /\ last.ret[2] = StoredPid[2]
            /\ last.ret[3] = (IF StoredPid[2] >= LimbBase \div 2 THEN LimbBase - 1 ELSE 0)
            /\ last.ret[4] = last.ret[3]

\* getProcessId has read, after an Init, a negative int other than -1 from
\* a cell whose upper half is in use, and has returned it sign-extended
C19_Witness ==
    /\ last.op = "getPid"
    /\ LayoutSet
    /\ PidReadsSucceed
    /\ StoredPid[2] >= LimbBase \div 2
    /\ StoredPid # MinusOne32
    /\ last.mem[Add64(last.mem[m_currentTaskAddr], m_taskStructTgidOffset)][3] = 1
    /\ last.ret # AllOnes
    /\ last.ret[4] = LimbBase - 1

(***************************************************************************)
(* C20: handling a MemoryUnmap emits exactly one memory-unmap notification *)
(* carrying (process id, region start, size) with size = (end - start)     *)
(* mod 2^64: size is the 64-bit value that added to start gives end        *)
(* modulo 2^64.  When end < start the size wraps around to a large value   *)
(* and the notification is emitted all the same.                           *)
(***************************************************************************)
IsU64(w) == Len(w) = 4 /\ \A i \in 1..4 : w[i] \in 0..(LimbBase - 1)

C20_UnmapSizeWraps ==
    Handled("LINUX_MEMORY_UNMAP") =>
        /\ Len(last.effects) = 1
        /\ last.effects[1].op = "emit"
        /\ last.effects[1].name = "onMemoryUnmap"
        /\ Len(last.effects[1].args) = 3
        /\ last.effects[1].args[1] = last.cmd.currentPid
        /\ last.effects[1].args[2] = last.cmd.MemUnmap.start
        /\ IsU64(last.effects[1].args[3])
        /\ Add64(last.effects[1].args[3], last.cmd.MemUnmap.start) = last.cmd.MemUnmap.end

\* a MemoryUnmap whose end is 0x8000 and whose start is 0x9000 has been
\* handled: the size in its notification is 2^64 - 0x1000
C20_Witness ==
    /\ Handled("LINUX_MEMORY_UNMAP")
    /\ last.cmd.MemUnmap.start = U64(36864)
    /\ last.cmd.MemUnmap.end = U64(32768)
    /\ Len(Emitted(last.effects, "onMemoryUnmap")) = 1
    /\ Emitted(last.effects, "onMemoryUnmap")[1].args[3] =
            << LimbBase - 4096, LimbBase - 1, LimbBase - 1, LimbBase - 1 >>

=============================================================================
